---- MODULE Spec2Model ----
(***************************************************************************)
(* A model of perforce/models.py: the split_ls chunking decorator, the     *)
(* Connection (construction, run, ls, findChangelist) and the Changelist / *)
(* Revision object model.  Each part has its own specification over the    *)
(* variables of the module; the variables of the other parts stay idle.    *)
(***************************************************************************)
EXTENDS Integers, Sequences, FiniteSets, TLC

VARIABLES
    \* ---- split_ls wrapper around Connection.ls
    ls_input,     \* the files argument as the caller passed it (a list)
    silent,       \* the silent argument
    level,        \* Connection._level
    files,        \* wrapper local: the files still to hand over
    counter,      \* wrapper local: characters accumulated in the chunk
    index,        \* wrapper local: position in files (0-based, as in the code)
    results,      \* wrapper local: the Revisions collected so far
    ls_pc,        \* "loop" | "done" (returned results) | "raised"
    ls_exc,       \* the exception that left the wrapper, "none" otherwise
    handed,       \* history: concatenation of the sublists handed to func
    ncalls,       \* history: calls of func, saturating at MaxCalls
    emptyCall     \* history: func was handed an empty sublist

VARIABLES
    \* ---- Connection.run
    cmd_stdin,      \* the stdin argument: "" (None) or a payload
    marshal_output, \* the marshal_output argument
    run_level,      \* Connection._level
    stream,         \* what the child writes to its stdout, as records
    stderr,         \* what the child writes to its stderr
    childReadsAll,  \* the child reads its stdin to end-of-file before writing
    pos,            \* records of stream consumed by marshal.load
    records,        \* run local: the records collected
    stdinWritten,   \* proc.stdin.write(stdin) has happened
    stdinClosed,    \* proc.stdin has been closed
    run_pc,         \* "start" | "spawned" | "loading" | "communicate" |
                    \* "returned" | "raised"
    run_exc,        \* the exception run raised, "none" otherwise
    returned        \* the value run returned to its caller, <<>> before

VARIABLES
    \* ---- Connection.__init__
    arg_port,     \* the port argument, NoneV when not given
    arg_user,     \* the user argument
    arg_client,   \* the client argument
    p4set,        \* how ['p4', 'set'] ends: "oserror" | "failed" | "ok"
    p4out,        \* the lines of its output, as split on '\r\n'
    getenv,       \* os.getenv, a function of the variable's name
    self_port,    \* Connection._port
    self_user,    \* Connection._user
    self_client,  \* Connection._client
    ctor_pc,      \* "start" | "getvars" | "parse" | "check" | "done" | "raised"
    ctor_exc,     \* the exception that left __init__, "none" otherwise
    spawned       \* external processes spawned so far

VARIABLES
    \* ---- the Changelist / Revision objects, the Connection they share
    \* ---- and the server behind it
    changelists,  \* the Changelist objects: _change, _files, _dirty, ...
    revisions,    \* the Revision objects the caller holds
    connection,   \* the Connection: what _client is bound to
    server,       \* the server: its changelists and the opened files
    last          \* history: the last call, its arguments and outcome

VARIABLES
    \* ---- a single call of a method that only computes a value
    probe         \* its inputs, whether it was made, and what came of it

lsVars == <<ls_input, silent, level, files, counter, index, results, ls_pc,
            ls_exc, handed, ncalls, emptyCall>>

runVars == <<cmd_stdin, marshal_output, run_level, stream, stderr,
             childReadsAll, pos, records, stdinWritten, stdinClosed, run_pc,
             run_exc, returned>>

ctorVars == <<arg_port, arg_user, arg_client, p4set, p4out, getenv, self_port,
              self_user, self_client, ctor_pc, ctor_exc, spawned>>

objVars == <<changelists, revisions, connection, server, last>>

vars == <<lsVars, runVars, ctorVars, objVars, probe>>

notLs == <<runVars, ctorVars, objVars, probe>>
notRun == <<lsVars, ctorVars, objVars, probe>>
notCtor == <<lsVars, runVars, objVars, probe>>
notObj == <<lsVars, runVars, ctorVars, probe>>
notProbe == <<lsVars, runVars, ctorVars, objVars>>

----------------------------------------------------------------------------
\* Bounds of the model
MaxFiles == 3        \* longest files argument
MaxCalls == 3        \* the history counter ncalls saturates here
MaxRecords == 3      \* longest stream a child writes
MaxLines == 2        \* most lines p4 set prints
MaxRun == 4           \* commands of one call on a Changelist or Revision that may fail
MaxOps == 4           \* calls a caller makes in one history
MaxDigits == 2        \* longest have-revision string
MaxFindRun == 7       \* commands of one findChangelist that may fail

\* Program constants
CHAR_LIMIT == 8000
EMPTY == 0
INFO == 1
WARN == 2
FAILED == 3
FATAL == 4

Min(a, b) == IF a < b THEN a ELSE b

----------------------------------------------------------------------------
(* Connection.run, marshal mode: the decoding loop.                        *)

\* Mutant: the threshold itself is let through.
IsFailure_Strict(record, lvl) ==
    record.code = "error" /\ record.severity > lvl

\* Mutant: every error record fails, whatever its severity.
IsFailure_AnyError(record, lvl) ==
    record.code = "error"

\* The test of line 247 on one decoded record.
IsFailure(record, lvl) ==
    record.code = "error" /\ record.severity >= lvl

\* The while loop of lines 245-253 over a whole stream: the records are
\* collected until one is a failure, which raises and drops them all.
RECURSIVE Decode(_, _, _)
Decode(out, lvl, recs) ==
    IF out = <<>> THEN [exc |-> "none", data |-> "", records |-> recs]
    ELSE IF IsFailure(Head(out), lvl)
         THEN [exc |-> "CommandError", data |-> Head(out).data,
               records |-> <<>>]
         ELSE Decode(Tail(out), lvl, Append(recs, Head(out)))

\* Connection.run in marshal mode as a function of what the child writes:
\* the decoding loop, then the test of stderr (lines 255-262).
RunMarshal(out, err, lvl) ==
    LET r == Decode(out, lvl, <<>>) IN
    IF r.exc # "none" THEN r
    ELSE IF err # "" THEN [exc |-> "CommandError", data |-> err, records |-> <<>>]
    ELSE r

----------------------------------------------------------------------------
(* split_ls and Connection.ls                                              *)

\* The file specs a caller may pass: name, len(str(spec)) and what the
\* server's fstat answers for it.
FileSpecs ==
    { [name |-> "a", len |-> 3000, kind |-> "ok"],
      [name |-> "b", len |-> 5000, kind |-> "ok"],
      [name |-> "c", len |-> 5000, kind |-> "missing"],
      [name |-> "d", len |-> 3000, kind |-> "outside"],
      [name |-> "e", len |-> 3000, kind |-> "denied"],
      [name |-> "f", len |-> CHAR_LIMIT + 1, kind |-> "ok"] }

FileLists == UNION { [1..n -> FileSpecs] : n \in 0..MaxFiles }

\* The record p4 -G fstat writes for one file spec.
FstatRecord(f) ==
    CASE f.kind = "ok"      -> [code |-> "stat", severity |-> EMPTY, data |-> f.name]
      [] f.kind = "missing" -> [code |-> "error", severity |-> WARN, data |-> "no such file"]
      [] f.kind = "outside" -> [code |-> "error", severity |-> FAILED,
                                data |-> "is not under client's root"]
      [] f.kind = "denied"  -> [code |-> "error", severity |-> FAILED, data |-> "denied"]

\* The output of p4 -G fstat <fs>; with no file argument p4 reports a usage
\* error.
FstatStream(fs) ==
    IF fs = <<>>
    THEN << [code |-> "error", severity |-> FAILED, data |-> "usage"] >>
    ELSE [i \in 1..Len(fs) |-> FstatRecord(fs[i])]

RECURSIVE NotErrorNames(_)
NotErrorNames(recs) ==
    IF recs = <<>> THEN <<>>
    ELSE IF Head(recs).code # "error"
         THEN <<Head(recs).data>> \o NotErrorNames(Tail(recs))
         ELSE NotErrorNames(Tail(recs))

\* The body of Connection.ls (the function split_ls wraps) on one list.
LsBody(fs, quiet, lvl) ==
    LET r == RunMarshal(FstatStream(fs), "", lvl) IN
    IF r.exc = "none"
    THEN [exc |-> "none", revs |-> NotErrorNames(r.records)]
    ELSE IF quiet THEN [exc |-> "none", revs |-> <<>>]
    ELSE IF r.data = "is not under client's root"
         THEN [exc |-> "RevisionError", revs |-> <<>>]
         ELSE [exc |-> "CommandError", revs |-> <<>>]

IdleLs ==
    /\ ls_input = <<>>
    /\ silent = TRUE
    /\ level = FAILED
    /\ files = <<>>
    /\ counter = 0
    /\ index = 0
    /\ results = <<>>
    /\ ls_pc = "done"
    /\ ls_exc = "none"
    /\ handed = <<>>
    /\ ncalls = 0
    /\ emptyCall = FALSE

StartLs ==
    /\ ls_input \in FileLists
    /\ silent \in BOOLEAN
    /\ level \in {WARN, FAILED}
    /\ files = ls_input
    /\ counter = 0
    /\ index = 0
    /\ results = <<>>
    /\ ls_pc = "loop"
    /\ ls_exc = "none"
    /\ handed = <<>>
    /\ ncalls = 0
    /\ emptyCall = FALSE

\* results += func(self, runfiles, silent, exclude_deleted), and its
\* history; an exception of func leaves the wrapper.
CallFunc(runfiles, final) ==
    LET r == LsBody(runfiles, silent, level) IN
    /\ handed' = handed \o runfiles
    /\ ncalls' = Min(ncalls + 1, MaxCalls)
    /\ emptyCall' = (emptyCall \/ runfiles = <<>>)
    /\ IF r.exc # "none"
       THEN /\ ls_pc' = "raised"
            /\ ls_exc' = r.exc
            /\ UNCHANGED results
       ELSE /\ results' = results \o r.revs
            /\ ls_pc' = IF final THEN "done" ELSE "loop"
            /\ ls_exc' = "none"

\* while files: is false
LsReturn ==
    /\ ls_pc = "loop"
    /\ files = <<>>
    /\ ls_pc' = "done"
    /\ UNCHANGED <<ls_input, silent, level, files, counter, index, results,
                   ls_exc, handed, ncalls, emptyCall>>
    /\ UNCHANGED notLs

\* if index >= len(files): the remainder is handed over, then break
LsCallRest ==
    /\ ls_pc = "loop"
    /\ files # <<>>
    /\ index >= Len(files)
    /\ CallFunc(files, TRUE)
    /\ UNCHANGED <<ls_input, silent, level, files, counter, index>>
    /\ UNCHANGED notLs

\* if length + counter > CHAR_LIMIT: files[:index] is handed over and
\* files[index:] is kept
LsCallChunk ==
    /\ ls_pc = "loop"
    /\ files # <<>>
    /\ index < Len(files)
    /\ files[index + 1].len + counter > CHAR_LIMIT
    /\ files' = SubSeq(files, index + 1, Len(files))
    /\ counter' = 0
    /\ index' = 0
    /\ CallFunc(SubSeq(files, 1, index), FALSE)
    /\ UNCHANGED <<ls_input, silent, level>>
    /\ UNCHANGED notLs

\* else: index += 1; counter += length
LsAdvance ==
    /\ ls_pc = "loop"
    /\ files # <<>>
    /\ index < Len(files)
    /\ files[index + 1].len + counter <= CHAR_LIMIT
    /\ index' = index + 1
    /\ counter' = counter + files[index + 1].len
    /\ UNCHANGED <<ls_input, silent, level, files, results, ls_pc, ls_exc,
                   handed, ncalls, emptyCall>>
    /\ UNCHANGED notLs

----------------------------------------------------------------------------
(* Connection.run, step by step                                            *)

\* What a child may write: data records and error records of each severity.
StreamRecords ==
    { [code |-> "stat", severity |-> EMPTY, data |-> "row"],
      [code |-> "error", severity |-> WARN, data |-> "warned"],
      [code |-> "error", severity |-> FAILED, data |-> "failed"],
      [code |-> "error", severity |-> FATAL, data |-> "fatal"] }

Streams == UNION { [1..n -> StreamRecords] : n \in 0..MaxRecords }

\* The raw stdout run hands back when marshal_output is false.
RawOutput == << [code |-> "raw", severity |-> EMPTY, data |-> "stdout"] >>

IdleRun ==
    /\ cmd_stdin = ""
    /\ marshal_output = TRUE
    /\ run_level = FAILED
    /\ stream = <<>>
    /\ stderr = ""
    /\ childReadsAll = FALSE
    /\ pos = 0
    /\ records = <<>>
    /\ stdinWritten = FALSE
    /\ stdinClosed = FALSE
    /\ run_pc = "returned"
    /\ run_exc = "none"
    /\ returned = <<>>

StartRun ==
    /\ cmd_stdin \in {"", "form"}
    /\ marshal_output \in BOOLEAN
    /\ run_level \in {WARN, FAILED, FATAL}
    /\ stream \in Streams
    /\ stderr \in {"", "message"}
    /\ childReadsAll \in BOOLEAN
    /\ pos = 0
    /\ records = <<>>
    /\ stdinWritten = FALSE
    /\ stdinClosed = FALSE
    /\ run_pc = "start"
    /\ run_exc = "none"
    /\ returned = <<>>

runArgs == <<cmd_stdin, marshal_output, run_level, stream, stderr, childReadsAll>>

\* The child has written its output: at once, or once its stdin is closed
\* when it reads its input to end-of-file first.
ChildWrites == ~childReadsAll \/ stdinClosed

\* proc = subprocess.Popen(...)
RunSpawn ==
    /\ run_pc = "start"
    /\ run_pc' = "spawned"
    /\ UNCHANGED <<runArgs, pos, records, stdinWritten, stdinClosed, run_exc, returned>>
    /\ UNCHANGED notRun

\* if stdin: proc.stdin.write(stdin); then the branch on marshal_output
RunWriteStdin ==
    /\ run_pc = "spawned"
    /\ stdinWritten' = (cmd_stdin # "")
    /\ run_pc' = IF marshal_output THEN "loading" ELSE "communicate"
    /\ UNCHANGED <<runArgs, pos, records, stdinClosed, run_exc, returned>>
    /\ UNCHANGED notRun

\* record = marshal.load(proc.stdout): a failure record closes the pipes
\* and raises, any other record is appended
RunLoad ==
    /\ run_pc = "loading"
    /\ ChildWrites
    /\ pos < Len(stream)
    /\ pos' = pos + 1
    /\ IF IsFailure(stream[pos + 1], run_level)
       THEN /\ stdinClosed' = TRUE
            /\ run_pc' = "raised"
            /\ run_exc' = "CommandError"
            /\ UNCHANGED records
       ELSE /\ records' = Append(records, stream[pos + 1])
            /\ UNCHANGED <<stdinClosed, run_pc, run_exc>>
    /\ UNCHANGED <<runArgs, stdinWritten, returned>>
    /\ UNCHANGED notRun

\* marshal.load raises EOFError at the end of the stream: the loop is left
RunEOF ==
    /\ run_pc = "loading"
    /\ ChildWrites
    /\ pos = Len(stream)
    /\ run_pc' = "communicate"
    /\ UNCHANGED <<runArgs, pos, records, stdinWritten, stdinClosed, run_exc, returned>>
    /\ UNCHANGED notRun

\* proc.communicate() closes the child's stdin and reads to the end; then
\* if stderr: raise CommandError, else return records
RunCommunicate ==
    /\ run_pc = "communicate"
    /\ stdinClosed' = TRUE
    /\ LET recs == IF marshal_output THEN records ELSE RawOutput IN
       /\ records' = recs
       /\ IF stderr # ""
          THEN /\ run_pc' = "raised"
               /\ run_exc' = "CommandError"
               /\ UNCHANGED returned
          ELSE /\ run_pc' = "returned"
               /\ returned' = recs
               /\ UNCHANGED run_exc
    /\ UNCHANGED <<runArgs, pos, stdinWritten>>
    /\ UNCHANGED notRun

----------------------------------------------------------------------------
(* Connection.__init__ and Connection.__getVariables                       *)

NoneV == "None"

\* Python's a or b on strings and None.
PyOr(a, b) == IF a \in {NoneV, ""} THEN b ELSE a

P4Names == {"P4PORT", "P4USER", "P4CLIENT"}

\* A line of the output of p4 set: the '=' signs in it, and for a line
\* NAME=value (note) its parts.
OutputLines ==
    { [eqs |-> 0, key |-> "", value |-> "", note |-> ""],
      [eqs |-> 0, key |-> "text", value |-> "", note |-> ""],
      [eqs |-> 1, key |-> "P4PORT", value |-> "host:1666", note |-> " (set)"],
      [eqs |-> 1, key |-> "P4USER", value |-> "bob", note |-> " (set)"],
      [eqs |-> 1, key |-> "P4CLIENT", value |-> "ws", note |-> ""],
      [eqs |-> 2, key |-> "P4CONFIG", value |-> "a=b", note |-> ""] }

Outputs == UNION { [1..n -> OutputLines] : n \in 0..MaxLines }

\* if not line: continue
IsBlank(line) == line.eqs = 0 /\ line.key = ""

\* k, v = line.split('=') raises ValueError unless the line has one '='.
Unpacks(line) == line.eqs = 1

\* p4vars after the loop of lines 136-140 (a later line overrides an
\* earlier one); v.strip().split(' (')[0] drops the note.
P4Vars(out) ==
    [k \in P4Names |->
        LET at == { i \in 1..Len(out) : ~IsBlank(out[i]) /\ out[i].key = k } IN
        IF at = {} THEN NoneV
        ELSE out[CHOOSE i \in at : \A j \in at : j <= i].value]

\* p4vars.get(name, os.getenv(name))
Lookup(out, name) ==
    IF P4Vars(out)[name] # NoneV THEN P4Vars(out)[name] ELSE getenv[name]

IdleCtor ==
    /\ arg_port = NoneV
    /\ arg_user = NoneV
    /\ arg_client = NoneV
    /\ p4set = "ok"
    /\ p4out = <<>>
    /\ getenv = [k \in P4Names |-> NoneV]
    /\ self_port = NoneV
    /\ self_user = NoneV
    /\ self_client = NoneV
    /\ ctor_pc = "done"
    /\ ctor_exc = "none"
    /\ spawned = 0

StartCtor ==
    /\ arg_port \in {NoneV, "", "ssl:p4:1666"}
    /\ arg_user \in {NoneV, "alice"}
    /\ arg_client \in {NoneV, "dev"}
    /\ p4set \in {"oserror", "failed", "ok"}
    /\ p4out \in (IF p4set = "ok" THEN Outputs ELSE {<<>>})
    /\ getenv \in [P4Names -> {NoneV, "fromenv"}]
    /\ self_port = NoneV
    /\ self_user = NoneV
    /\ self_client = NoneV
    /\ ctor_pc = "start"
    /\ ctor_exc = "none"
    /\ spawned = 0

ctorArgs == <<arg_port, arg_user, arg_client, p4set, p4out, getenv>>

\* lines 104-109: the arguments are stored
CtorStore ==
    /\ ctor_pc = "start"
    /\ self_port' = arg_port
    /\ self_user' = arg_user
    /\ self_client' = arg_client
    /\ ctor_pc' = "getvars"
    /\ UNCHANGED <<ctorArgs, ctor_exc, spawned>>
    /\ UNCHANGED notCtor

\* subprocess.check_output(['p4', 'set']): the executable cannot be
\* started (OSError leaves __init__), or the process runs and exits
\* non-zero (CalledProcessError is logged and __getVariables returns), or
\* it prints its output.
CtorP4Set ==
    /\ ctor_pc = "getvars"
    /\ \/ /\ p4set = "oserror"
          /\ ctor_pc' = "raised"
          /\ ctor_exc' = "OSError"
          /\ UNCHANGED spawned
       \/ /\ p4set = "failed"
          /\ spawned' = spawned + 1
          /\ ctor_pc' = "check"
          /\ UNCHANGED ctor_exc
       \/ /\ p4set = "ok"
          /\ spawned' = spawned + 1
          /\ ctor_pc' = "parse"
          /\ UNCHANGED ctor_exc
    /\ UNCHANGED <<ctorArgs, self_port, self_user, self_client>>
    /\ UNCHANGED notCtor

\* lines 135-144: the output is parsed and the unset parameters are
\* resolved; a line that does not unpack raises ValueError.
CtorParse ==
    /\ ctor_pc = "parse"
    /\ IF \E i \in 1..Len(p4out) : ~IsBlank(p4out[i]) /\ ~Unpacks(p4out[i])
       THEN /\ ctor_pc' = "raised"
            /\ ctor_exc' = "ValueError"
            /\ UNCHANGED <<self_port, self_user, self_client>>
       ELSE /\ self_port' = PyOr(self_port, Lookup(p4out, "P4PORT"))
            /\ self_user' = PyOr(self_user, Lookup(p4out, "P4USER"))
            /\ self_client' = PyOr(self_client, Lookup(p4out, "P4CLIENT"))
            /\ ctor_pc' = "check"
            /\ UNCHANGED ctor_exc
    /\ UNCHANGED <<ctorArgs, spawned>>
    /\ UNCHANGED notCtor

\* Mutant: the checks of lines 113-118 are missing.
CtorCheck_Missing ==
    /\ ctor_pc = "check"
    /\ ctor_pc' = "done"
    /\ UNCHANGED <<ctorArgs, self_port, self_user, self_client, ctor_exc, spawned>>
    /\ UNCHANGED notCtor

\* lines 113-118: if self._port is None / if self._user is None
CtorCheck ==
    /\ ctor_pc = "check"
    /\ IF self_port = NoneV \/ self_user = NoneV
       THEN /\ ctor_pc' = "raised"
            /\ ctor_exc' = "ConnectionError"
       ELSE /\ ctor_pc' = "done"
            /\ UNCHANGED ctor_exc
    /\ UNCHANGED <<ctorArgs, self_port, self_user, self_client, spawned>>
    /\ UNCHANGED notCtor

----------------------------------------------------------------------------
(* Changelist, Revision and the server behind the Connection               *)

Objs == {"A", "B"}              \* the Changelist objects
Handles == {"r1"}               \* the Revision objects the caller holds
Paths == {"p1", "p2"}           \* depot paths
PathOrder == <<"p1", "p2">>     \* the order the server lists them in
Changes == {1, 2, 3}            \* changelist numbers of the server
NotOpened == -1                 \* a path opened in no changelist
Unbuilt == -1                   \* _change of an object not constructed yet

\* Revision.depotFile of a handle.
DepotFile(r) == "p1"

\* A member of _files: the caller's Revision object, or one that a query
\* built from a server record (a different object with the same path).
HandleObj(r) == [obj |-> r, depotFile |-> DepotFile(r)]
QueryObj(p) == [obj |-> "q", depotFile |-> p]

\* Description strings: a text, with or without surrounding whitespace.
Texts == {"fix bug", "default"}
Descriptions == [text : Texts, pad : BOOLEAN]
\* the descriptions a caller assigns to a changelist
Assigned == {[text |-> "default", pad |-> TRUE], [text |-> "fix bug", pad |-> FALSE]}
NoText == [text |-> "", pad |-> FALSE]

\* str.strip()
Strip(d) == [d EXCEPT !.pad = FALSE]

\* The server keeps a form's description with its line end.
Stored(d) == [d EXCEPT !.pad = TRUE]

\* _p4dict of an object that has fetched nothing: {}
EmptyDict == [keys |-> FALSE, status |-> "", description |-> NoText, client |-> ""]

NoChange == [status |-> "none", description |-> NoText, client |-> "", files |-> <<>>]

NoForm == [kind |-> "none", description |-> NoText, client |-> "", files |-> <<>>]

UnbuiltChangelist ==
    [change |-> Unbuilt, loaded |-> FALSE, files |-> <<>>, dirty |-> FALSE,
     reverted |-> FALSE, p4dict |-> EmptyDict]

\* The state a call works on, threaded through its steps: the objects, the
\* commands run so far, the exception raised, the command that is to
\* fail (0: none) and what the step returned.
Begin(fail) ==
    [cls |-> changelists, revs |-> revisions, conn |-> connection,
     srv |-> server, log |-> <<>>, exc |-> "none", fail |-> fail,
     ret |-> FALSE, form |-> NoForm, res |-> Unbuilt]

Ok(st) == st.exc = "none"

\* Connection.run(cmd): the command is issued; it raises CommandError when
\* the server fails it.
Cmd(st, cmd) ==
    IF ~Ok(st) THEN st
    ELSE LET l == Append(st.log, cmd) IN
         [st EXCEPT !.log = l,
                    !.exc = IF Len(l) = st.fail THEN "CommandError" ELSE "none"]

Raise(st, e) == IF ~Ok(st) THEN st ELSE [st EXCEPT !.exc = e]

\* The next step F of a call, skipped once an exception is on its way.
Bind(st, F(_)) == IF Ok(st) THEN F(st) ELSE st

\* ---- the server's side of the commands

\* p4 change -o <n>
ChangeRecord(srv, n) ==
    [keys |-> TRUE, status |-> srv.changes[n].status,
     description |-> srv.changes[n].description, client |-> srv.changes[n].client]

\* p4 opened -c <n>: a record for each path opened in n
OpenedPaths(srv, n) == SelectSeq(PathOrder, LAMBDA p : srv.opened[p] = n)

\* p4 edit / reopen [-c n] path: edit opens a path that is not open, reopen
\* moves one that is.
SrvOpen(srv, command, p, n) ==
    IF (command = "edit") = (srv.opened[p] = NotOpened)
    THEN [srv EXCEPT !.opened[p] = n]
    ELSE srv

\* p4 revert -c <n> paths
SrvRevert(srv, n, ps) ==
    [srv EXCEPT !.opened = [p \in Paths |->
        IF p \in ps /\ srv.opened[p] = n THEN NotOpened ELSE srv.opened[p]]]

\* p4 change -i with a form of an existing change
SrvSave(srv, n, form) ==
    [srv EXCEPT !.changes[n].description = Stored(form.description),
                !.changes[n].client = form.client]

\* The number p4 change -i gives a new change.
NewNumber(srv) ==
    CHOOSE n \in Changes :
        /\ srv.changes[n].status = "none"
        /\ \A m \in Changes : srv.changes[m].status = "none" => n <= m

\* p4 change -i with a "new" form
SrvCreate(srv, form) ==
    [srv EXCEPT !.changes[NewNumber(srv)] =
        [status |-> "pending", description |-> Stored(form.description),
         client |-> form.client, files |-> <<>>]]

\* ---- Connection.client (lines 146-152): a name is replaced by a Client
\* object, whose construction runs client -o.
ConnectionClient(st) ==
    IF ~Ok(st) \/ st.conn.client # "name" THEN st
    ELSE Bind(Cmd(st, "client -o"), LAMBDA a : [a EXCEPT !.conn.client = "object"])

\* unicode(connection.client): the workspace's name, u'None' without one
ClientName(conn) == IF conn.client = "none" THEN "None" ELSE "ws"

\* ---- Revision

\* Revision.query: fstat refreshes _p4dict
RevisionQuery(st, r) ==
    Bind(Cmd(st, "fstat"),
         LAMBDA a : [a EXCEPT !.revs[r].change = a.srv.opened[DepotFile(r)]])

\* Revision.action is 'add' or 'edit' when _p4dict says the file is open
IsOpen(rev) == rev.change # NotOpened

\* the command of Revision.edit is run, then self.query()
RevisionEditAs(st, r, n, command) ==
    RevisionQuery(
        Bind(Cmd(st, command),
             LAMBDA a : [a EXCEPT !.srv = SrvOpen(a.srv, command, DepotFile(r), n)]),
        r)

\* Revision.edit(changelist), int(changelist) = n
RevisionEdit(st, r, n) ==
    RevisionEditAs(st, r, n, IF IsOpen(st.revs[r]) THEN "reopen" ELSE "edit")

\* ---- Changelist

\* the Revisions a query builds from the server's records
QueryObjs(ps) == [i \in 1..Len(ps) |-> QueryObj(ps[i])]

\* self._p4dict = ... run(['change', '-o', ...])[0]
FetchHeader(st, c, n) ==
    Bind(Cmd(st, "change -o"),
         LAMBDA a : [a EXCEPT !.cls[c].p4dict = ChangeRecord(a.srv, n)])

\* Changelist.__init__(connection, n): the fields, then query(files=False)
ChangelistInit(st, c, n) ==
    FetchHeader(
        Bind(st, LAMBDA a : [a EXCEPT !.cls[c] = [UnbuiltChangelist EXCEPT !.change = n]]),
        c, n)

\* self._connection.ls(depotfiles) of query: silent, a failure lists nothing
LsDescribed(d, c, ps) ==
    IF Ok(d) THEN [d EXCEPT !.cls[c].files = QueryObjs(ps)]
    ELSE [d EXCEPT !.exc = "none"]

\* lines 502-507: the files of a change that is not pending
DescribedFiles(b, c) ==
    IF ~Ok(b) \/ b.srv.changes[b.cls[c].change].files = <<>> THEN b
    ELSE LsDescribed(Cmd(b, "fstat"), c, b.srv.changes[b.cls[c].change].files)

\* lines 497-507, after self._files = []
LoadFiles(s2, c) ==
    IF s2.cls[c].p4dict.status = "pending"
    THEN Bind(Cmd(s2, "opened"),
              LAMBDA b : [b EXCEPT !.cls[c].files =
                                      QueryObjs(OpenedPaths(b.srv, b.cls[c].change))])
    ELSE DescribedFiles(Cmd(s2, "describe"), c)

\* lines 495-496: if files: self._files = []
QueryFiles(s1, c, withFiles) ==
    IF ~Ok(s1) \/ ~withFiles THEN s1
    ELSE LoadFiles([s1 EXCEPT !.cls[c].files = <<>>, !.cls[c].loaded = TRUE], c)

\* Changelist.query(files): _change is a number other than 0 here
ChangelistQuery(st, c, withFiles) ==
    QueryFiles(FetchHeader(st, c, st.cls[c].change), c, withFiles)

\* if self._files is None: self.query()
EnsureLoaded(st, c) ==
    IF ~Ok(st) \/ st.cls[c].loaded THEN st ELSE ChangelistQuery(st, c, TRUE)

\* some member of fs has the depot path p
HasPath(fs, p) == \E i \in 1..Len(fs) : fs[i].depotFile = p

\* Mutant: membership by object identity instead of by depot path.
ChangelistContains_Identity(st, c, r) ==
    Bind(EnsureLoaded(st, c),
         LAMBDA s1 : [s1 EXCEPT !.ret = \E i \in 1..Len(s1.cls[c].files) :
                                            s1.cls[c].files[i] = HandleObj(r)])

\* Changelist.__contains__(other), other a Revision
ChangelistContains(st, c, r) ==
    Bind(EnsureLoaded(st, c),
         LAMBDA s1 : [s1 EXCEPT !.ret = HasPath(s1.cls[c].files, DepotFile(r))])

RECURSIVE ChangelistAppend(_, _, _)
RECURSIVE AppendUnlessMember(_, _, _)
RECURSIVE AppendFile(_, _, _)
RECURSIVE RevisionSetChangelist(_, _, _)
RECURSIVE AppendIfAbsent(_, _, _)

\* lines 528-531: self._files.append(rev); rev.changelist = self;
\* self._dirty = True
AppendFile(s2, c, r) ==
    IF ~Ok(s2) THEN s2
    ELSE Bind(RevisionSetChangelist(
                  [s2 EXCEPT !.cls[c].files = Append(@, HandleObj(r))], r, c),
              LAMBDA s4 : [s4 EXCEPT !.cls[c].dirty = TRUE])

\* lines 524-526: if not rev in self: if rev.isMapped: rev.edit(self)
AppendUnlessMember(s1, c, r) ==
    IF ~Ok(s1) \/ s1.ret THEN s1
    ELSE AppendFile(IF s1.revs[r].mapped
                    THEN RevisionEdit(s1, r, s1.cls[c].change)
                    ELSE s1,
                    c, r)

\* Changelist.append(rev), rev a Revision
ChangelistAppend(st, c, r) ==
    AppendUnlessMember(ChangelistContains(st, c, r), c, r)

\* line 936: if self not in value: value.append(self)
AppendIfAbsent(s1, c, r) ==
    IF Ok(s1) /\ ~s1.ret THEN ChangelistAppend(s1, c, r) ELSE s1

\* Revision.changelist = value, value a Changelist
RevisionSetChangelist(st, r, c) ==
    Bind(AppendIfAbsent(ChangelistContains(st, c, r), c, r),
         LAMBDA s2 : [s2 EXCEPT !.revs[r].changelist = c])

\* list.remove(x): the first element equal to x, objects being equal only
\* to themselves
RemoveFirst(fs, x) ==
    LET i == CHOOSE k \in 1..Len(fs) : fs[k] = x /\ \A j \in 1..(k - 1) : fs[j] # x
    IN  SubSeq(fs, 1, i - 1) \o SubSeq(fs, i + 1, Len(fs))

\* lines 544-549 of Changelist.remove
RemoveMember(s1, c, x, permanent) ==
    IF ~Ok(s1) THEN s1
    ELSE IF ~s1.ret THEN Raise(s1, "ValueError: not in changelist")
    ELSE IF \A i \in 1..Len(s1.cls[c].files) : s1.cls[c].files[i] # x
    THEN Raise(s1, "ValueError: list.remove(x): x not in list")
    ELSE IF permanent THEN [s1 EXCEPT !.cls[c].files = RemoveFirst(@, x)]
    \* self._connection.default: Connection has no such attribute
    ELSE Raise([s1 EXCEPT !.cls[c].files = RemoveFirst(@, x)], "AttributeError")

\* Changelist.remove(rev, permanent); arg is a handle or not a Revision
ChangelistRemove(st, c, arg, permanent) ==
    IF arg \notin Handles THEN Raise(st, "TypeError")
    ELSE RemoveMember(ChangelistContains(st, c, arg), c, HandleObj(arg), permanent)

\* the depot paths of _files
MemberPaths(fs) == { fs[i].depotFile : i \in 1..Len(fs) }

\* lines 571-576 of Changelist.revert: the command, when there are files,
\* then self._files = []; self._reverted = True
RevertFiles(st, c, fs) ==
    Bind(IF fs # <<>> THEN Cmd(st, "revert") ELSE st,
         LAMBDA a : [a EXCEPT !.srv = IF fs # <<>>
                                      THEN SrvRevert(a.srv, a.cls[c].change, MemberPaths(fs))
                                      ELSE a.srv,
                              !.cls[c].files = <<>>,
                              !.cls[c].reverted = TRUE])

\* Changelist.revert()
ChangelistRevert(st, c) ==
    IF st.cls[c].reverted THEN Raise(st, "ChangelistError")
    \* for f in self._files, _files being None
    ELSE IF ~st.cls[c].loaded THEN Raise(st, "TypeError")
    ELSE RevertFiles(st, c, st.cls[c].files)

\* Changelist.__format__: the form of the change
ChangelistFormat(st, c) ==
    Bind(EnsureLoaded(st, c),
         LAMBDA s1 : [s1 EXCEPT !.form =
                          [kind |-> "change",
                           description |-> s1.cls[c].p4dict.description,
                           client |-> s1.cls[c].p4dict.client,
                           files |-> [i \in 1..Len(s1.cls[c].files) |->
                                         s1.cls[c].files[i].depotFile]]])

\* Changelist.save()
ChangelistSave(st, c) ==
    Bind(Cmd(ChangelistFormat(st, c), "change -i"),
         LAMBDA a : [a EXCEPT !.srv = SrvSave(a.srv, a.cls[c].change, a.form),
                              !.cls[c].dirty = FALSE])

\* the Revision objects of a list the caller passes
HandleObjs(rs) == [i \in 1..Len(rs) |-> HandleObj(rs[i])]

\* p4 edit -c <n> paths: each path that is not open is opened in n
SrvEditAll(srv, n, ps) ==
    [srv EXCEPT !.opened = [p \in Paths |->
        IF p \in ps /\ srv.opened[p] = NotOpened THEN n ELSE srv.opened[p]]]

\* lines 462-466 of __iadd__: the edit of the files, self._files += other,
\* self.save()
IAddExtend(s1, c, rs) ==
    ChangelistSave(
        Bind(Cmd(s1, "edit"),
             LAMBDA a : [a EXCEPT !.srv = SrvEditAll(a.srv, a.cls[c].change,
                                                     MemberPaths(HandleObjs(rs))),
                                  !.cls[c].files = @ \o HandleObjs(rs)]),
        c)

\* lines 467-469: except errors.CommandError: self._files = currentfiles
IAddRestore(d, c, currentfiles) ==
    IF d.exc = "CommandError" THEN [d EXCEPT !.cls[c].files = currentfiles] ELSE d

\* lines 458-469, the files being loaded
IAddLoaded(s1, c, rs) ==
    IF ~Ok(s1) THEN s1
    ELSE IAddRestore(IAddExtend(s1, c, rs), c, s1.cls[c].files)

\* Changelist.__iadd__(other), other a list of Revisions
ChangelistIAdd(st, c, rs) == IAddLoaded(EnsureLoaded(st, c), c, rs)

\* p4 submit -c <n>: the change is submitted with the files opened in it
SrvSubmit(srv, n) ==
    [srv EXCEPT !.changes[n].status = "submitted",
                !.changes[n].files = OpenedPaths(srv, n),
                !.opened = [p \in Paths |->
                               IF srv.opened[p] = n THEN NotOpened ELSE srv.opened[p]]]

\* Mutant: the submit command without the save of a dirty changelist.
ChangelistSubmit_NoSave(st, c) ==
    Bind(Cmd(st, "submit"),
         LAMBDA a : [a EXCEPT !.srv = SrvSubmit(a.srv, a.cls[c].change)])

\* Changelist.submit(): if self._dirty: self.save(); then the submit
ChangelistSubmit(st, c) ==
    Bind(Cmd(IF st.cls[c].dirty THEN ChangelistSave(st, c) ELSE st, "submit"),
         LAMBDA a : [a EXCEPT !.srv = SrvSubmit(a.srv, a.cls[c].change)])

\* Changelist.description = desc
SetDescription(st, c, desc) ==
    Bind(st, LAMBDA a : [a EXCEPT !.cls[c].p4dict.description = Strip(desc),
                                  !.cls[c].dirty = TRUE])

\* Changelist.client = client
SetClient(st, c, client) ==
    Bind(st, LAMBDA a : [a EXCEPT !.cls[c].p4dict.client = client,
                                  !.cls[c].dirty = TRUE])

\* Changelist.description
Description(cl) == Strip(cl.p4dict.description)

\* lines 662-668 of Default.__init__: the opened files of the default
\* changelist are appended to _files, which is None (AttributeError when
\* there is one); then change -o and connection.client
DefaultFiles(a) ==
    IF ~Ok(a) THEN a
    ELSE IF OpenedPaths(a.srv, 0) # <<>> THEN Raise(a, "AttributeError")
    ELSE ConnectionClient(Cmd(a, "change -o"))

\* Default(connection): Changelist.__init__(connection, None) leaves
\* _files None and fetches nothing
DefaultInit(st) == DefaultFiles(Cmd(st, "opened"))

\* 'default', the description Revision.shelve compares with
DefaultLiteral == [text |-> "default", pad |-> FALSE]

\* Changelist(unicode(change), connection).description == 'default'
FetchedIsDefault(a, n) ==
    IF Ok(a) /\ Strip(a.srv.changes[n].description) = DefaultLiteral
    THEN Raise(a, "ShelveError") ELSE a

\* line 820: changelist is None and self.changelist.description == 'default'
ShelveTest(st, rev) ==
    IF rev.changelist # NoneV
    THEN IF Description(st.cls[rev.changelist]) = DefaultLiteral
         THEN Raise(st, "ShelveError") ELSE st
    \* self._p4dict['change'] of a file that is not open
    ELSE IF rev.change = NotOpened THEN Raise(st, "KeyError")
    \* Default(...).description reads _p4dict['description'] of {}
    ELSE IF rev.change = 0 THEN Raise(DefaultInit(st), "KeyError")
    ELSE FetchedIsDefault(Cmd(st, "change -o"), rev.change)

\* Revision.shelve(changelist): changelist is None (explicit = NoneV) or a
\* Changelist object
RevisionShelve(st, r, explicit) ==
    RevisionQuery(
        Cmd(IF explicit # NoneV THEN st ELSE ShelveTest(st, st.revs[r]), "shelve"),
        r)

\* Mutant: the descriptions compared as they are, without strip().
SameDescription_Exact(desc, description) == desc = description

\* cl['desc'].strip() == description.strip()
SameDescription(desc, description) == Strip(desc) = Strip(description)

\* the new form is sent and the Changelist of the number the server
\* gave, int(result.split()[1]), is constructed
CreateWith(s1, c, form) ==
    ChangelistInit(
        Bind(Cmd(s1, "change -i new"),
             LAMBDA a : [a EXCEPT !.srv = SrvCreate(a.srv, form), !.form = form]),
        c, NewNumber(s1.srv))

\* NEW_FORMAT.format(client=unicode(connection.client), ...)
CreateForm(s1, c, description) ==
    CreateWith(s1, c, [kind |-> "new", description |-> description,
                       client |-> ClientName(s1.conn), files |-> <<>>])

\* Changelist.create(connection, description), the new object being c
ChangelistCreate(st, c, description) ==
    CreateForm(ConnectionClient(st), c, description)

\* p4 changes -s pending lists the newest change first
PendingOrder == <<3, 2, 1>>

PendingChanges(srv) == SelectSeq(PendingOrder, LAMBDA n : srv.changes[n].status = "pending")

\* change.client = self._client
BindClient(b, c) == SetClient(b, c, ClientName(b.conn))

\* lines 309-318: the first pending change of that description, or a new
\* one, bound to the client and saved
FoundOrCreated(a, c, description, found) ==
    IF ~Ok(a) THEN a
    ELSE IF found # <<>> THEN ChangelistInit(a, c, found[1])
    ELSE ChangelistSave(BindClient(ChangelistCreate(a, c, description), c), c)

\* the pending changes whose description is the one looked for
Matching(srv, description) ==
    SelectSeq(PendingChanges(srv),
              LAMBDA n : SameDescription(srv.changes[n].description, description))

\* Connection.findChangelist(description), the Changelist returned being
\* c: description is None (kind "none"), a number or a text
FindChangelist(st, c, kind, num, description) ==
    IF kind = "none" THEN DefaultInit(st)
    ELSE IF kind = "number" THEN ChangelistInit(st, c, num)
    ELSE FoundOrCreated(Cmd(st, "changes"), c, description, Matching(st.srv, description))

----------------------------------------------------------------------------
(* The calls a caller makes on the objects                                 *)

\* history: the depot path of r is among c's members as the call starts
\* (among the files a first load lists, when _files is still None)
PreMember(c, r) ==
    IF changelists[c].loaded
    THEN HasPath(changelists[c].files, DepotFile(r))
    ELSE changelists[c].change # Unbuilt /\ server.opened[DepotFile(r)] = changelists[c].change

NoServer == [opened |-> [p \in Paths |-> NotOpened], changes |-> [n \in Changes |-> NoChange]]

Record(st, op, c, arg, flag, text) ==
    [n |-> last.n + 1, op |-> op, cl |-> c, arg |-> arg, flag |-> flag, text |-> text,
     exc |-> st.exc, log |-> st.log, form |-> st.form, res |-> st.res,
     pre |-> changelists[c], preRev |-> revisions["r1"],
     member |-> PreMember(c, "r1"),
     preServer |-> IF op = "findChangelist" THEN server ELSE NoServer]

Commit(st, rec) ==
    /\ changelists' = st.cls
    /\ revisions' = st.revs
    /\ connection' = st.conn
    /\ server' = st.srv
    /\ last' = rec
    /\ UNCHANGED notObj

\* c has been constructed, and the caller has a call left to make
Built(c) == changelists[c].change # Unbuilt /\ last.n < MaxOps

DoQuery(c) ==
    /\ Built(c)
    /\ \E fail \in 0..MaxRun :
          LET st == ChangelistQuery(Begin(fail), c, TRUE) IN
          Commit(st, Record(st, "query", c, "", FALSE, NoText))

DoAppend(c, r) ==
    /\ Built(c)
    /\ \E fail \in 0..MaxRun :
          LET st == ChangelistAppend(Begin(fail), c, r) IN
          Commit(st, Record(st, "append", c, r, FALSE, NoText))

DoRemove(c, arg, permanent) ==
    /\ Built(c)
    /\ \E fail \in 0..MaxRun :
          LET st == ChangelistRemove(Begin(fail), c, arg, permanent) IN
          Commit(st, Record(st, "remove", c, arg, permanent, NoText))

DoRevert(c) ==
    /\ Built(c)
    /\ \E fail \in 0..MaxRun :
          LET st == ChangelistRevert(Begin(fail), c) IN
          Commit(st, Record(st, "revert", c, "", FALSE, NoText))

DoSave(c) ==
    /\ Built(c)
    /\ \E fail \in 0..MaxRun :
          LET st == ChangelistSave(Begin(fail), c) IN
          Commit(st, Record(st, "save", c, "", FALSE, NoText))

\* submit() of a change the server still holds as pending
DoSubmit(c) ==
    /\ Built(c)
    /\ server.changes[changelists[c].change].status = "pending"
    /\ \E fail \in 0..MaxRun :
          LET st == ChangelistSubmit(Begin(fail), c) IN
          Commit(st, Record(st, "submit", c, "", FALSE, NoText))

\* c += rs; how many Revisions the list held is kept in arg
DoIAdd(c, rs) ==
    /\ Built(c)
    /\ \E fail \in 0..MaxRun :
          LET st == ChangelistIAdd(Begin(fail), c, rs) IN
          Commit(st, Record(st, "iadd", c, rs[1], Len(rs) > 1, NoText))

\* r.changelist = c
DoSetChangelist(r, c) ==
    /\ Built(c)
    /\ \E fail \in 0..MaxRun :
          LET st == RevisionSetChangelist(Begin(fail), r, c) IN
          Commit(st, Record(st, "changelist", c, r, FALSE, NoText))

DoSetDescription(c, desc) ==
    /\ Built(c)
    /\ LET st == SetDescription(Begin(0), c, desc) IN
       Commit(st, Record(st, "description", c, "", FALSE, desc))

DoSetClient(c, client) ==
    /\ Built(c)
    /\ LET st == SetClient(Begin(0), c, client) IN
       Commit(st, Record(st, "client", c, client, FALSE, NoText))

DoShelve(r, explicit) ==
    /\ last.n < MaxOps
    /\ explicit # NoneV => Built(explicit)
    /\ \E fail \in 0..MaxRun :
          LET st == RevisionShelve(Begin(fail), r, explicit) IN
          Commit(st, Record(st, "shelve", "A", explicit, FALSE, NoText))

\* findChangelist; a Changelist that was not returned is not kept
DoFind(c, kind, num, description) ==
    /\ last.op = "none"
    /\ kind = "number" => server.changes[num].status = "pending"
    /\ \E fail \in 0..MaxFindRun :
          LET st == FindChangelist(Begin(fail), c, kind, num, description)
              fin == IF Ok(st)
                     THEN [st EXCEPT !.res = IF kind = "none" THEN 0 ELSE st.cls[c].change]
                     ELSE [st EXCEPT !.cls[c] = UnbuiltChangelist]
          IN  Commit(fin, Record(fin, "findChangelist", c, kind, FALSE, description))

IdleLast ==
    [n |-> 0, op |-> "none", cl |-> "A", arg |-> "", flag |-> FALSE, text |-> NoText,
     exc |-> "none", log |-> <<>>, form |-> NoForm, res |-> Unbuilt,
     pre |-> UnbuiltChangelist,
     preRev |-> [changelist |-> NoneV, change |-> NotOpened, mapped |-> FALSE],
     member |-> FALSE, preServer |-> NoServer]

PendingChange(text) ==
    [status |-> "pending", description |-> [text |-> text, pad |-> TRUE],
     client |-> "ws", files |-> <<>>]

IdleObj ==
    /\ changelists = [c \in Objs |-> UnbuiltChangelist]
    /\ revisions = [r \in Handles |->
                       [changelist |-> NoneV, change |-> NotOpened, mapped |-> FALSE]]
    /\ connection = [client |-> "name"]
    /\ server = NoServer
    /\ last = IdleLast

\* Changelist(connection, 1) has been constructed over a server with the
\* pending change 1; the caller holds a Revision of p1 as fstat gave it.
StartCL ==
    /\ server \in { [opened |-> o, changes |-> [n \in Changes |->
                        IF n = 1 THEN PendingChange("fix bug") ELSE NoChange]] :
                    o \in [Paths -> {NotOpened, 0, 1}] }
    /\ server.opened["p2"] # 0
    /\ changelists = [c \in Objs |->
                        IF c = "A"
                        THEN [UnbuiltChangelist EXCEPT !.change = 1,
                                                       !.p4dict = ChangeRecord(server, 1)]
                        ELSE UnbuiltChangelist]
    /\ revisions \in [Handles -> [changelist : {NoneV},
                                  change : {server.opened["p1"]},
                                  mapped : BOOLEAN]]
    /\ connection = [client |-> "name"]
    /\ last = IdleLast

\* Changelist(connection, 1) and Changelist(connection, 2) have been
\* constructed over a server with the pending changes 1 and 2; the caller
\* holds a Revision of p1 as fstat gave it.
StartTwo ==
    /\ server \in { [opened |-> o, changes |-> [n \in Changes |->
                        IF n \in {1, 2} THEN PendingChange("fix bug") ELSE NoChange]] :
                    o \in [Paths -> {NotOpened, 0, 1, 2}] }
    /\ server.opened["p2"] \in {NotOpened, 2}
    /\ changelists = [c \in Objs |->
                        [UnbuiltChangelist EXCEPT
                            !.change = IF c = "A" THEN 1 ELSE 2,
                            !.p4dict = ChangeRecord(server, IF c = "A" THEN 1 ELSE 2)]]
    /\ revisions \in [Handles -> [changelist : {NoneV},
                                  change : {server.opened["p1"]},
                                  mapped : BOOLEAN]]
    /\ connection = [client |-> "name"]
    /\ last = IdleLast

\* A Connection over a server with up to two pending changes; no
\* Changelist object yet.
StartFind ==
    /\ server \in { [opened |-> o, changes |-> ch] :
                    o \in [Paths -> {NotOpened, 0, 1}],
                    ch \in [Changes -> {NoChange} \cup {PendingChange(t) : t \in Texts}] }
    /\ server.changes[3] = NoChange
    /\ \A p \in Paths :
          server.opened[p] \in Changes => server.changes[server.opened[p]] # NoChange
    /\ changelists = [c \in Objs |-> UnbuiltChangelist]
    /\ revisions = [r \in Handles |->
                       [changelist |-> NoneV, change |-> server.opened["p1"],
                        mapped |-> TRUE]]
    /\ connection \in [client : {"none", "name", "object"}]
    /\ last = IdleLast

----------------------------------------------------------------------------
(* Connection.canAdd                                                       *)

IdleProbe == probe = [fn |-> "none"]

\* What p4 -G add -n may write: a success record, an info record (the
\* file is already opened or exists in the depot), error records.
AddRecords ==
    { [code |-> "stat", severity |-> EMPTY, data |-> "opened for add"],
      [code |-> "info", severity |-> INFO, data |-> "can't add"],
      [code |-> "error", severity |-> WARN, data |-> "warned"],
      [code |-> "error", severity |-> FAILED, data |-> "not under client's root"] }

AddStreams == UNION { [1..n -> AddRecords] : n \in 0..MaxRecords }

\* lines 361-367, run having returned recs: recs[0] raises IndexError on
\* an empty list; the code of the first record decides otherwise
CanAddResult(recs) ==
    IF recs = <<>> THEN [exc |-> "IndexError", ret |-> FALSE]
    ELSE [exc |-> "none", ret |-> recs[1].code \notin {"error", "info"}]

\* lines 357-360: except errors.CommandError: return False
CanAddOutcome(r) ==
    IF r.exc = "CommandError" THEN [exc |-> "none", ret |-> FALSE]
    ELSE CanAddResult(r.records)

\* Connection.canAdd as a function of what the dry-run add writes
CanAdd(out, err, lvl) == CanAddOutcome(RunMarshal(out, err, lvl))

StartCanAdd ==
    probe \in [fn : {"canAdd"}, pc : {"start"}, out : AddStreams,
               err : {"", "message"}, lvl : {WARN, FAILED, FATAL},
               exc : {"none"}, ret : {FALSE}]

DoCanAdd ==
    /\ probe.fn = "canAdd" /\ probe.pc = "start"
    /\ probe' = [probe EXCEPT !.pc = "done",
                              !.exc = CanAdd(probe.out, probe.err, probe.lvl).exc,
                              !.ret = CanAdd(probe.out, probe.err, probe.lvl).ret]
    /\ UNCHANGED notProbe

----------------------------------------------------------------------------
(* Revision.revision                                                       *)

\* The haveRev field of _p4dict: absent (fstat gives none for a file that
\* was never synced), the string 'none', or a string of decimal digits.
DigitStrings == UNION { [1..n -> 0..9] : n \in 1..MaxDigits }

HaveRevs ==
    {[kind |-> "absent", digits |-> <<>>], [kind |-> "none", digits |-> <<>>]}
       \cup { [kind |-> "digits", digits |-> ds] : ds \in DigitStrings }

\* int() of a string of decimal digits
RECURSIVE ParseInt(_)
ParseInt(ds) ==
    IF ds = <<>> THEN 0
    ELSE 10 * ParseInt(SubSeq(ds, 1, Len(ds) - 1)) + ds[Len(ds)]

\* lines 906-909: rev = self._p4dict.get('haveRev', -1);
\* if rev == 'none': rev = 0; return int(rev)
RevisionRevision(raw) ==
    IF raw.kind = "absent" THEN -1
    ELSE IF raw.kind = "none" THEN 0
    ELSE ParseInt(raw.digits)

StartRevision ==
    probe \in [fn : {"revision"}, pc : {"start"}, raw : HaveRevs, ret : {0}]

DoRevision ==
    /\ probe.fn = "revision" /\ probe.pc = "start"
    /\ probe' = [probe EXCEPT !.pc = "done", !.ret = RevisionRevision(probe.raw)]
    /\ UNCHANGED notProbe

----------------------------------------------------------------------------
(* The specifications                                                      *)

InitLs == StartLs /\ IdleRun /\ IdleCtor /\ IdleObj /\ IdleProbe
NextLs == LsReturn \/ LsCallRest \/ LsCallChunk \/ LsAdvance
SpecLs == InitLs /\ [][NextLs]_vars

\* the wrapper keeps running while it has a step to take
SpecLsFair == InitLs /\ [][NextLs]_vars /\ WF_vars(NextLs)

InitRun == StartRun /\ IdleLs /\ IdleCtor /\ IdleObj /\ IdleProbe
NextRun == RunSpawn \/ RunWriteStdin \/ RunLoad \/ RunEOF \/ RunCommunicate
SpecRun == InitRun /\ [][NextRun]_vars

InitCtor == StartCtor /\ IdleLs /\ IdleRun /\ IdleObj /\ IdleProbe
NextCtor == CtorStore \/ CtorP4Set \/ CtorParse \/ CtorCheck
SpecCtor == InitCtor /\ [][NextCtor]_vars

InitCanAdd == StartCanAdd /\ IdleLs /\ IdleRun /\ IdleCtor /\ IdleObj
NextCanAdd == DoCanAdd
SpecCanAdd == InitCanAdd /\ [][NextCanAdd]_vars

InitRevision == StartRevision /\ IdleLs /\ IdleRun /\ IdleCtor /\ IdleObj
NextRevision == DoRevision
SpecRevision == InitRevision /\ [][NextRevision]_vars

InitCL == StartCL /\ IdleLs /\ IdleRun /\ IdleCtor /\ IdleProbe
NextCL ==
    \/ DoQuery("A")
    \/ DoAppend("A", "r1")
    \/ \E arg \in Handles \cup {"a path"}, permanent \in BOOLEAN :
          DoRemove("A", arg, permanent)
    \/ DoRevert("A")
    \/ DoSave("A")
    \/ \E desc \in Assigned : DoSetDescription("A", desc)
    \/ DoSetClient("A", "ws2")
    \/ \E explicit \in {NoneV, "A"} : DoShelve("r1", explicit)
SpecCL == InitCL /\ [][NextCL]_vars

InitSubmit == StartCL /\ IdleLs /\ IdleRun /\ IdleCtor /\ IdleProbe
NextSubmit ==
    \/ DoQuery("A")
    \/ \E desc \in Assigned : DoSetDescription("A", desc)
    \/ DoSetClient("A", "ws2")
    \/ DoSave("A")
    \/ DoSubmit("A")
SpecSubmit == InitSubmit /\ [][NextSubmit]_vars

\* the lists of Revisions a caller adds with +=
AddedLists == { <<"r1">>, <<"r1", "r1">> }

InitMembers == StartCL /\ IdleLs /\ IdleRun /\ IdleCtor /\ IdleProbe
NextMembers ==
    \/ DoQuery("A")
    \/ DoAppend("A", "r1")
    \/ \E rs \in AddedLists : DoIAdd("A", rs)
    \/ \E permanent \in BOOLEAN : DoRemove("A", "r1", permanent)
    \/ DoRevert("A")
SpecMembers == InitMembers /\ [][NextMembers]_vars

InitTwo == StartTwo /\ IdleLs /\ IdleRun /\ IdleCtor /\ IdleProbe
NextTwo ==
    \/ \E c \in Objs : DoAppend(c, "r1")
    \/ \E c \in Objs : DoSetChangelist("r1", c)
SpecTwo == InitTwo /\ [][NextTwo]_vars

InitFind == StartFind /\ IdleLs /\ IdleRun /\ IdleCtor /\ IdleProbe
NextFind ==
    \/ DoFind("A", "none", 0, NoText)
    \/ \E num \in Changes : DoFind("A", "number", num, NoText)
    \/ \E description \in Descriptions : DoFind("A", "text", 0, description)
SpecFind == InitFind /\ [][NextFind]_vars


----------------------------------------------------------------------------
(* The claims                                                              *)

\* What one call of the wrapped function on the whole list gives.
Unchunked == LsBody(ls_input, silent, level)

\* C1 (as stated): for every non-empty list of file specs the chunked ls
\* ends as one unchunked call of the wrapped listing on the whole list
\* does: it returns the same Revisions in input order, having handed every
\* input spec over exactly once, in order, and it raises only what the
\* unchunked call raises.
C1_ChunkedAsUnchunked ==
    ls_input # <<>> =>
        /\ ls_pc = "done" =>
              /\ Unchunked.exc = "none"
              /\ results = Unchunked.revs
              /\ handed = ls_input
        /\ ls_pc = "raised" => ls_exc = Unchunked.exc

\* A record of the stream fails the command at the connection's level.
AtOrAbove(k) ==
    stream[k].code = "error" /\ stream[k].severity >= run_level

RunFinished == run_pc \in {"returned", "raised"}

\* C2: in marshal mode, a run whose stream holds an error record at or
\* above the connection's level never returns: it has raised CommandError
\* and handed none of the earlier records to its caller.
C2_AllOrNothing ==
    (marshal_output /\ RunFinished /\ \E k \in 1..Len(stream) : AtOrAbove(k))
        => (run_pc = "raised" /\ run_exc = "CommandError" /\ returned = <<>>)

\* Two ordinary records were collected, the third failed the command.
C2_Witness ==
    /\ marshal_output
    /\ run_pc = "raised"
    /\ pos = 3
    /\ Len(records) = 2
    /\ AtOrAbove(3)
    /\ returned = <<>>

\* C3: in marshal mode, an error record below the connection's level is
\* collected at its stream position like a data record, and a run whose
\* stream holds no record at or above the level (and whose child wrote
\* nothing to stderr) returns the whole stream, in order.
C3_BelowLevelPasses ==
    /\ (marshal_output /\ run_pc = "loading") => records = SubSeq(stream, 1, pos)
    /\ (marshal_output /\ RunFinished /\ stderr = ""
          /\ \A k \in 1..Len(stream) : ~AtOrAbove(k))
        => (run_pc = "returned" /\ run_exc = "none" /\ returned = stream)

\* A run returned a stream with an error record below the level in it.
C3_Witness ==
    /\ marshal_output
    /\ run_pc = "returned"
    /\ Len(returned) = 3
    /\ returned[2].code = "error"
    /\ returned[2].severity < run_level
    /\ returned[2] = stream[2]

\* A parameter is resolvable: given explicitly, printed by p4 set, or in
\* the process environment.
Resolvable(arg, name) ==
    \/ arg # NoneV
    \/ \E i \in 1..Len(p4out) : p4out[i].eqs = 1 /\ p4out[i].key = name
    \/ getenv[name] # NoneV

NeitherResolvable ==
    ~Resolvable(arg_port, "P4PORT") /\ ~Resolvable(arg_user, "P4USER")

\* Some line of the output is neither blank nor of the form NAME=value.
Malformed ==
    \E i \in 1..Len(p4out) :
        ~(p4out[i].eqs = 0 /\ p4out[i].key = "") /\ p4out[i].eqs # 1

\* C4 (as stated): when neither the port nor the user is resolvable and
\* construction signals ConnectionError, no external process has been
\* spawned before that signal.
C4_NoProcessBeforeError ==
    (NeitherResolvable /\ ctor_exc = "ConnectionError") => spawned = 0

\* C4 (amended): when neither the port nor the user is resolvable,
\* construction never yields a Connection.  It signals ConnectionError
\* once the p4 set query has run (exited non-zero, or printed lines that
\* parse), and that query is the only process spawned before the signal;
\* a query that cannot be started, or a line that does not parse, leaves
\* construction with that error (OSError, ValueError) instead.
C4_ErrorAfterSettingsQuery ==
    /\ spawned <= 1
    /\ (NeitherResolvable /\ ctor_pc \in {"done", "raised"}) =>
          /\ ctor_pc = "raised"
          /\ p4set = "oserror" => (ctor_exc = "OSError" /\ spawned = 0)
          /\ p4set = "failed" => (ctor_exc = "ConnectionError" /\ spawned = 1)
          /\ p4set = "ok" =>
                /\ spawned = 1
                /\ ctor_exc = IF Malformed THEN "ValueError" ELSE "ConnectionError"

\* Construction with neither parameter resolvable signalled
\* ConnectionError after p4 set printed a client only.
C4_Witness ==
    /\ NeitherResolvable
    /\ ctor_pc = "raised"
    /\ ctor_exc = "ConnectionError"
    /\ p4set = "ok"
    /\ Len(p4out) = 1
    /\ p4out[1].key = "P4CLIENT"
    /\ spawned = 1


\* ---- Changelist, Revision, findChangelist

A == changelists["A"]

\* the number of times cmd was run by the last call
Count(cmd) == Cardinality({ i \in 1..Len(last.log) : last.log[i] = cmd })

\* the last call was op and no command of it was failed by the server
Called(op) == last.op = op /\ last.exc # "CommandError"

\* C5: revert() of a Changelist that is not reverted, its membership
\* loaded or not, completes with the membership empty and the reverted
\* flag set; revert() of a reverted one signals ChangelistError and runs
\* no command.
C5_RevertOnce ==
    /\ (Called("revert") /\ ~last.pre.reverted)
          => (last.exc = "none" /\ A.files = <<>> /\ A.reverted)
    /\ (last.op = "revert" /\ last.pre.reverted)
          => (last.exc = "ChangelistError" /\ last.log = <<>>)

\* C6: append(rev) of a Revision whose depot path is among the members
\* runs no add, edit or reopen and leaves the dirty flag as it was; the
\* members are the ones there were (the ones the server lists, when the
\* call had to load them).
C6_AppendMemberNoOp ==
    (last.op = "append" /\ last.member)
        => /\ Count("add") + Count("edit") + Count("reopen") = 0
           /\ A.dirty = last.pre.dirty
           /\ last.pre.loaded => (A.files = last.pre.files /\ last.log = <<>>)
           /\ (~last.pre.loaded /\ last.exc = "none")
                 => A.files = QueryObjs(OpenedPaths(server, A.change))

\* an append of the caller's Revision to a loaded changelist that holds
\* its path as another object
C6_Witness ==
    /\ last.op = "append" /\ last.member /\ last.exc = "none"
    /\ last.pre.loaded
    /\ \E i \in 1..Len(A.files) : A.files[i] = QueryObj("p1")
    /\ \A i \in 1..Len(A.files) : A.files[i] # HandleObj("r1")

\* C7: save() sends the description and client the object held as the
\* call began, setter-assigned ones included, whether the membership was
\* loaded or not; the dirty flag is cleared on success and kept on
\* failure.
C7_SaveSendsMemory ==
    /\ (last.op = "save" /\ last.exc = "none")
          => /\ Strip(last.form.description) = Strip(last.pre.p4dict.description)
             /\ last.form.client = last.pre.p4dict.client
             /\ ~A.dirty
    /\ (last.op = "save" /\ last.exc # "none") => A.dirty = last.pre.dirty

\* the pending changes of the server findChangelist looked at whose
\* trimmed description is the trimmed text, as p4 lists them
C8_Matches ==
    SelectSeq(PendingOrder,
              LAMBDA n : /\ last.preServer.changes[n].status = "pending"
                         /\ last.preServer.changes[n].description.text = last.text.text)

C8_Found == last.op = "findChangelist" /\ last.arg = "text" /\ last.exc = "none"

\* the one create is followed by the one save
C8_CreateThenSave ==
    /\ Count("change -i new") = 1
    /\ Count("change -i") = 1
    /\ \A i, j \in 1..Len(last.log) :
          (last.log[i] = "change -i new" /\ last.log[j] = "change -i") => i < j

\* C8 as stated: without a match, one create and one save, and the
\* description of the Changelist returned is the text given; with a match,
\* the first match and no create or save.
C8_ReturnsGivenText ==
    C8_Found =>
        IF C8_Matches = <<>>
        THEN C8_CreateThenSave /\ Description(A) = last.text
        ELSE /\ last.res = C8_Matches[1]
             /\ Count("change -i new") + Count("change -i") = 0

\* C8 amended: without a match, one create and one save, and the
\* description of the Changelist returned is the trimmed text; with a
\* match, the first match and no create or save.
C8_ReturnsTrimmedText ==
    C8_Found =>
        IF C8_Matches = <<>>
        THEN /\ C8_CreateThenSave
             /\ Description(A) = [text |-> last.text.text, pad |-> FALSE]
             /\ last.res = A.change
             /\ last.preServer.changes[last.res].status = "none"
        ELSE /\ last.res = C8_Matches[1]
             /\ A.change = last.res
             /\ Count("change -i new") + Count("change -i") = 0

\* a text with surrounding whitespace that matched nothing was looked for
C8_Witness ==
    /\ C8_Found /\ C8_Matches = <<>>
    /\ last.text.pad
    /\ \E n \in Changes : last.preServer.changes[n].status = "pending"

\* C9: remove(rev) of a member by depot path, permanent or not, completes
\* and leaves no member of that path; a non-Revision signals TypeError and
\* a non-member ValueError, the members unchanged.
C9_RemoveMember ==
    /\ (Called("remove") /\ last.arg \in Handles /\ last.member)
          => (last.exc = "none" /\ ~HasPath(A.files, DepotFile(last.arg)))
    /\ (Called("remove") /\ last.arg \notin Handles)
          => (last.exc = "TypeError" /\ A.files = last.pre.files)
    /\ (Called("remove") /\ last.arg \in Handles /\ ~last.member)
          => (last.exc = "ValueError: not in changelist"
              /\ (last.pre.loaded => A.files = last.pre.files))

\* C10: shelve() without a changelist, on a Revision open in the default
\* changelist, signals ShelveError and runs no shelve.
C10_DefaultShelveError ==
    (/\ Called("shelve") /\ last.arg = NoneV
     /\ last.preRev.changelist = NoneV /\ last.preRev.change = 0)
        => (last.exc = "ShelveError" /\ Count("shelve") = 0)


\* ---- canAdd

\* what run gives canAdd: it raised, or the records it returned
C11_Run == RunMarshal(probe.out, probe.err, probe.lvl)

C11_Called == probe.fn = "canAdd" /\ probe.pc = "done"

\* C11: canAdd never raises; it returns false unless run returned and
\* the first record is a success record, an empty record list included.
C11_NeverRaises ==
    C11_Called =>
        /\ probe.exc = "none"
        /\ probe.ret => (/\ C11_Run.exc = "none" /\ C11_Run.records # <<>>
                         /\ C11_Run.records[1].code = "stat")


\* ---- Revision.revision

\* the number a string of one or two decimal digits writes
C12_Value(ds) == IF Len(ds) = 1 THEN ds[1] ELSE 10 * ds[1] + ds[2]

\* C12: Revision.revision is 0 for a have-revision that is absent or
\* 'none', the number a numeric string writes otherwise, and never
\* negative.
C12_NeverSyncedIsZero ==
    (probe.fn = "revision" /\ probe.pc = "done") =>
        /\ probe.ret >= 0
        /\ probe.raw.kind \in {"absent", "none"} => probe.ret = 0
        /\ (probe.raw.kind = "digits" /\ Len(probe.raw.digits) <= 2)
              => probe.ret = C12_Value(probe.raw.digits)


\* ---- Changelist.submit

\* C13: submit() of a dirty changelist runs the save to its end before
\* the submit command, and no submit when the save fails; of a clean one
\* it runs the submit command alone.  The dirty flag is false whenever
\* submit() returns.
C13_SaveBeforeSubmit ==
    last.op = "submit" =>
        /\ Count("submit") <= 1
        /\ (last.pre.dirty /\ Count("submit") = 1)
              => /\ Len(last.log) >= 2
                 /\ last.log[Len(last.log)] = "submit"
                 /\ last.log[Len(last.log) - 1] = "change -i"
                 /\ Count("change -i") = 1
        /\ (last.pre.dirty /\ last.exc = "none") => Count("submit") = 1
        /\ ~last.pre.dirty => (last.log = <<"submit">>)
        /\ last.exc = "none" => ~A.dirty

\* a dirty changelist was submitted
C13_Witness ==
    /\ last.op = "submit" /\ last.pre.dirty /\ last.exc = "none"
    /\ server.changes[A.change].status = "submitted"


\* ---- the membership list

\* C14: after any append, +=, remove, revert and query, no two entries of
\* the membership list have the same depot path.
C14_UniquePaths ==
    \A i, j \in 1..Len(A.files) :
        A.files[i].depotFile = A.files[j].depotFile => i = j


\* ---- a Revision and two Changelists

\* r is an entry of the membership list of c
C15_Holds(c, r) ==
    \E i \in 1..Len(changelists[c].files) : changelists[c].files[i] = HandleObj(r)

\* C15: after any appends and changelist assignments over the Changelists
\* A and B, no Revision object is in the membership list of both.
C15_OneChangelist == ~(C15_Holds("A", "r1") /\ C15_Holds("B", "r1"))


\* ---- the reverted changelist

\* C16: a Changelist that was reverted has no member, whatever was called
\* on it since.
C16_RevertedStaysEmpty == A.reverted => A.files = <<>>


\* ---- run and its child's input

\* C17: with a payload, the child's input has been written and closed
\* when run starts reading the child's output.
C17_InputClosedBeforeReading ==
    (run_pc \in {"loading"} /\ cmd_stdin # "") => (stdinWritten /\ stdinClosed)

\* ---- termination of the chunked ls

\* C18: the chunked ls ends, by returning or raising, and no call of the
\* listing it wraps is handed an empty sublist.
C18_Terminates == []~emptyCall /\ <>(ls_pc # "loop")

====
